---- MODULE Spec2Model ----
(***************************************************************************)
(* Model of mp-wx-sdk (src/index.js): the WeChat class wraps the host's    *)
(* callback-style capability object `wx` into promise-returning methods.   *)
(*                                                                         *)
(* JavaScript values are records [tag, n]; a value that may be an object   *)
(* with own fields (an argument of a call) also carries a field map        *)
(* [tag, n, fields].  A promise is [state, value].  Every invocation of a  *)
(* public method is one entry of the sequence inv; inner[i] is the         *)
(* bluebird promise the invoker creates for it (index.js:22), outer[i] the *)
(* native promise an `async` method returns (index.js:54).                 *)
(***************************************************************************)
EXTENDS Integers, Sequences, FiniteSets, TLC

VARIABLES wx, inv, inner, outer, cbs

vars == <<wx, inv, inner, outer, cbs>>

\* ---------------------------------------------------------------- bounds
\* invocations followed by the general specification
MaxInv == 1
\* invocations in flight in the concurrent specification
MaxConc == 2

\* ---------------------------------------------------------------- values
Val(t, n) == [tag |-> t, n |-> n]

Undefined == Val("undefined", 0)
Null == Val("null", 0)
\* marks a field an object does not have (not a JavaScript value)
Absent == Val("absent", 0)
NoError == Val("none", 0)
\* new Error('wx对象不存在')
WxMissingError == Val("Error:wx-missing", 0)
\* TypeError: api is not a function / o.success is not a function
NotAFunction == Val("TypeError", 0)
\* an error the host operation throws of its own
HostError == Val("HostError", 0)

D1 == Val("data", 1)
D2 == Val("data", 2)
DataVals == {D1, D2}

FieldNames == {"method", "url", "data", "header", "timeout", "success", "fail"}
NoFields == [f \in FieldNames |-> Absent]

Prim(t, n) == [tag |-> t, n |-> n, fields |-> NoFields]
Obj(fs) == [tag |-> "object", n |-> 0, fields |-> fs]
UndefinedArg == Prim("undefined", 0)

\* the value a field read  o.f  yields
Get(o, f) == IF o.tag = "object" /\ o.fields[f] # Absent THEN o.fields[f] ELSE Undefined

\* ---------------------------------------------------------------- promises
NoPromise == [state |-> "none", value |-> Undefined]
Pending == [state |-> "pending", value |-> Undefined]

ResolveFn(id) == Val("resolve", id)
RejectFn(id) == Val("reject", id)

Resolved(v) == [state |-> "resolved", value |-> v]
Rejected(v) == [state |-> "rejected", value |-> v]

\* a resolve that settles again: the last call wins
ResolveLastWins(p, v) == IF p.state = "none" THEN p ELSE Resolved(v)
\* resolve(v): the first settlement wins, a later call is a no-op
Resolve(p, v) == IF p.state = "pending" THEN Resolved(v) ELSE p
\* a reject that wraps the failure payload in an error of its own
RejectWrapped(p, e) ==
  IF p.state = "pending" THEN Rejected(Val("Error:wrapped", e.n)) ELSE p
\* reject(e)
Reject(p, e) == IF p.state = "pending" THEN Rejected(e) ELSE p

IsCallable(v) == v.tag \in {"function", "resolve", "reject"}

\* calling the function value fn with one argument v; ps are the promises.
\* A function of the caller runs the caller's code and touches no promise.
ApplyFn(ps, fn, v) ==
  CASE fn.tag = "resolve" -> [ps EXCEPT ![fn.n] = Resolve(@, v)]
    [] fn.tag = "reject" -> [ps EXCEPT ![fn.n] = Reject(@, v)]
    [] OTHER -> ps

\* ---------------------------------------------------------------- the host
\* A host operation (a field of wx) is a program: the callbacks it calls
\* before it returns (sync: <<slot, value>> with slot "success", "fail" of
\* the options it got, or "callback" for the options itself), what it then
\* throws (NoError when it returns), the value it returns, and whether it
\* calls back later.
Program(c, s, t, r, l) ==
  [name |-> "", callable |-> c, sync |-> s, throws |-> t, ret |-> r, later |-> l]

Missing == Program(FALSE, <<>>, NoError, Undefined, FALSE)
\* returns a value and calls back later (a request, a listener registration)
PAsync == Program(TRUE, <<>>, NoError, D2, TRUE)
PSuccess == Program(TRUE, <<<<"success", D1>>>>, NoError, Undefined, FALSE)
PFail == Program(TRUE, <<<<"fail", D1>>>>, NoError, Undefined, FALSE)
PThrows == Program(TRUE, <<>>, HostError, Undefined, FALSE)
PSuccessThenThrows == Program(TRUE, <<<<"success", D2>>>>, HostError, Undefined, FALSE)
PCallsBack == Program(TRUE, <<<<"callback", D1>>>>, NoError, D1, FALSE)

Programs == {PAsync, PSuccess, PFail, PThrows, PSuccessThenThrows, PCallsBack}

OpNames ==
  {"login", "request", "nextTick", "getMenuButtonBoundingClientRect", "onSocketOpen"}

\* the capability object: every operation runs program p
WxObject(p) ==
  [tag |-> "object", n |-> 0, ops |-> [o \in OpNames |-> [p EXCEPT !.name = o]]]
WxNull == [tag |-> "null", n |-> 0, ops |-> [o \in OpNames |-> Missing]]
WxUndefined == [tag |-> "undefined", n |-> 0, ops |-> [o \in OpNames |-> Missing]]

\* The functions a capability object inherits from Object.prototype. The
\* adapter calls api(...) with no receiver: toString then returns the string
\* '[object Undefined]', the Object constructor returns the object or
\* function it got, and the nine others throw a TypeError on the missing
\* receiver. __proto__ is an accessor whose value is no function, and any
\* other name is not found.
ThisMissingError == Val("TypeError", 1)
ObjectUndefinedString == Val("string", 2)
FirstArgument == Val("argument", 1)
NeedsThis ==
  {"hasOwnProperty", "valueOf", "isPrototypeOf", "propertyIsEnumerable",
   "toLocaleString", "__defineGetter__", "__defineSetter__",
   "__lookupGetter__", "__lookupSetter__"}
PToString == Program(TRUE, <<>>, NoError, ObjectUndefinedString, FALSE)
PConstructor == Program(TRUE, <<>>, NoError, FirstArgument, FALSE)
PNeedsThis == Program(TRUE, <<>>, ThisMissingError, Undefined, FALSE)
Inherited(fun) ==
  CASE fun = "toString" -> PToString
    [] fun = "constructor" -> PConstructor
    [] fun \in NeedsThis -> PNeedsThis
    [] OTHER -> Missing

\* wx[fun]: an own field, or what the prototype chain of wx gives
Lookup(w, fun) ==
  IF fun \in OpNames THEN w.ops[fun]
  ELSE IF w.tag = "object" THEN [Inherited(fun) EXCEPT !.name = fun]
  ELSE Missing

\* what api(...args) returned
Returned(api, args) ==
  IF api.ret = FirstArgument THEN Val(args[1].tag, args[1].n) ELSE api.ret

\* the function the host finds in `slot` of the first argument it got
SlotFn(arg, slot) == IF slot = "callback" THEN Val(arg.tag, arg.n) ELSE Get(arg, slot)

\* what the host has called of the functions it got for one invocation:
\* the first call (slot and value) and whether it called again after it
NoCb == [first |-> <<"none", Undefined>>, again |-> FALSE]
NoteCb(cb, slot, v) ==
  IF cb.first[1] = "none" THEN [first |-> <<slot, v>>, again |-> FALSE]
  ELSE [cb EXCEPT !.again = TRUE]

\* the host operation's synchronous callback calls, in order; calling a
\* slot that holds no function throws a TypeError inside the host
RECURSIVE HostSteps(_, _, _, _)
HostSteps(steps, arg, ps, cb) ==
  IF steps = <<>> THEN [ps |-> ps, threw |-> NoError, cb |-> cb]
  ELSE LET fn == SlotFn(arg, Head(steps)[1])
           v == Head(steps)[2]
       IN IF ~IsCallable(fn)
          THEN [ps |-> ps, threw |-> NotAFunction, cb |-> cb]
          ELSE HostSteps(Tail(steps), arg, ApplyFn(ps, fn, v),
                         NoteCb(cb, Head(steps)[1], v))

\* ---------------------------------------------------------------- the adapter
\* JavaScript truthiness: !x
Truthy(x) ==
  ~(x.tag \in {"undefined", "null"}
    \/ (x.tag \in {"number", "string", "boolean"} /\ x.n = 0))

\* typeof options === 'function'
IsFunction(x) == x.tag = "function"

\* an assign in which a field the target already has is kept
ObjectAssignKeep(target, source) ==
  [f \in FieldNames |->
     IF target[f] = Absent /\ source.tag = "object" THEN source.fields[f]
     ELSE target[f]]
\* Object.assign(target, source): the own fields of source over target's
ObjectAssign(target, source) ==
  [f \in FieldNames |->
     IF source.tag = "object" /\ source.fields[f] # Absent
     THEN source.fields[f] ELSE target[f]]

\* the pair with the two callbacks interchanged
CallbackPairSwapped(id) ==
  Obj([NoFields EXCEPT !.success = RejectFn(id), !.fail = ResolveFn(id)])
\* { success: resolve, fail: reject }
CallbackPair(id) ==
  Obj([NoFields EXCEPT !.success = ResolveFn(id), !.fail = RejectFn(id)])

\* a merge that takes the timeout out of what the host gets, to enforce it
\* in the adapter
MergedOptionsNoTimeout(options, id) ==
  Obj([ObjectAssign(ObjectAssign(NoFields, options), CallbackPair(id))
         EXCEPT !.timeout = Absent])
\* Object.assign({}, options, { success: resolve, fail: reject })
MergedOptions(options, id) ==
  Obj(ObjectAssign(ObjectAssign(NoFields, options), CallbackPair(id)))

\* the callbacks assigned onto options itself: Object.assign(options, {...})
OptionsAfterInPlace(options, id) ==
  IF options.tag = "object" THEN MergedOptions(options, id) ELSE options
\* callbacks injected whatever options is (as in src/unnamed/part_001:23)
HostArgsAlwaysMerged(options, params, id) ==
  <<MergedOptions(options, id)>> \o params
\* the extra arguments not forwarded
HostArgsNoParams(options, params, id) ==
  IF IsFunction(options) THEN <<options>> ELSE <<MergedOptions(options, id)>>
\* the object the invoker got as options, after the call: the target of
\* Object.assign is the new {}, options is only read
OptionsAfter(options, id) == options

\* the extra arguments forwarded after the caller's function as well
HostArgsForwardsBoth(options, params, id) ==
  IF IsFunction(options) THEN <<options>> \o params
  ELSE <<MergedOptions(options, id)>> \o params
\* the arguments api is called with
HostArgs(options, params, id) ==
  IF IsFunction(options) THEN <<options>>
  ELSE <<MergedOptions(options, id)>> \o params

\* the outcome of the promise executor (resolve, reject) => { ... } for the
\* promise id (pending in ps): bluebird turns what the executor throws into
\* a rejection
Executor(api, options, params, id, ps) ==
  LET args == HostArgs(options, params, id)
  IN IF ~api.callable
     THEN [ps |-> [ps EXCEPT ![id] = Reject(@, NotAFunction)], called |-> 0,
           hostOp |-> "", hostArgs |-> <<>>, cb |-> NoCb, hostThrew |-> NoError,
           after |-> OptionsAfter(options, id)]
     ELSE LET r == HostSteps(api.sync, args[1], ps, NoCb)
              threw == IF r.threw # NoError THEN r.threw
                       ELSE api.throws
              ps2 == IF threw # NoError
                     THEN [r.ps EXCEPT ![id] = Reject(@, threw)]
                     ELSE IF IsFunction(options)
                          THEN [r.ps EXCEPT ![id] = Resolve(@, Returned(api, args))]
                          ELSE r.ps
          IN [ps |-> ps2, called |-> 1, hostOp |-> api.name, hostArgs |-> args,
              cb |-> r.cb, hostThrew |-> threw, after |-> OptionsAfter(options, id)]

\* an invoker whose promise and callback pair are made once and shared by
\* all its calls
InvokerShared(api, options, params, ps) ==
  LET e == Executor(api, options, params, 1, Append(ps, Pending))
  IN [threw |-> NoError, ps |-> e.ps, called |-> e.called, hostOp |-> e.hostOp,
      hostArgs |-> e.hostArgs, cb |-> e.cb, hostThrew |-> e.hostThrew,
      after |-> e.after]

\* an invoker that calls api again when the promise has been rejected
InvokerRetries(api, options, params, ps) ==
  LET id == Len(ps) + 1
      e == Executor(api, options, params, id, Append(ps, Pending))
  IN [threw |-> NoError, ps |-> e.ps,
      called |-> IF e.called = 1 /\ e.ps[id].state = "rejected" THEN 2 ELSE e.called,
      hostOp |-> e.hostOp, hostArgs |-> e.hostArgs, cb |-> e.cb,
      hostThrew |-> e.hostThrew, after |-> e.after]

\* an invoker that resolves with what api returned in both branches
InvokerUsesReturn(api, options, params, ps) ==
  LET id == Len(ps) + 1
      e == Executor(api, options, params, id, Append(ps, Pending))
  IN [threw |-> NoError,
      ps |-> IF e.called = 1 /\ e.hostThrew = NoError
             THEN [e.ps EXCEPT ![id] = Resolve(@, Returned(api, e.hostArgs))]
             ELSE e.ps,
      called |-> e.called, hostOp |-> e.hostOp, hostArgs |-> e.hostArgs,
      cb |-> e.cb, hostThrew |-> e.hostThrew, after |-> e.after]

\* an invoker that calls api outside the promise: what api throws escapes
InvokerNoCatch(api, options, params, ps) ==
  LET id == Len(ps) + 1
      e == Executor(api, options, params, id, Append(ps, Pending))
  IN [threw |-> e.hostThrew,
      ps |-> IF e.hostThrew # NoError THEN Append(ps, NoPromise) ELSE e.ps,
      called |-> e.called, hostOp |-> e.hostOp, hostArgs |-> e.hostArgs,
      cb |-> e.cb, hostThrew |-> e.hostThrew, after |-> e.after]

\* an invoker whose bare-callback branch is api(options) without resolve
InvokerDropsReturn(api, options, params, ps) ==
  LET id == Len(ps) + 1
      e == Executor(api, options, params, id, Append(ps, Pending))
  IN [threw |-> NoError,
      ps |-> IF IsFunction(options) /\ e.hostThrew = NoError
             THEN [e.ps EXCEPT ![id] = Pending] ELSE e.ps,
      called |-> e.called, hostOp |-> e.hostOp, hostArgs |-> e.hostArgs,
      cb |-> e.cb, hostThrew |-> e.hostThrew, after |-> e.after]

\* (options, ...params) => new Promise(executor): the outcome of a call
Invoker(api, options, params, ps) ==
  LET id == Len(ps) + 1
      e == Executor(api, options, params, id, Append(ps, Pending))
  IN [threw |-> NoError, ps |-> e.ps, called |-> e.called, hostOp |-> e.hostOp,
      hostArgs |-> e.hostArgs, cb |-> e.cb, hostThrew |-> e.hostThrew,
      after |-> e.after]

\* the outcome of a call that threw before any promise was made
Threw(err, ps) ==
  [threw |-> err, ps |-> Append(ps, NoPromise), called |-> 0, hostOp |-> "",
   hostArgs |-> <<>>, cb |-> NoCb, hostThrew |-> NoError, after |-> UndefinedArg]

\* a promisify without the check of this.wx
PromisifyUnchecked(w, api, options, params, ps) ==
  Invoker(api, options, params, ps)
\* a promisify that checks api itself and throws when it is no function
PromisifyTypeChecked(w, api, options, params, ps) ==
  IF ~Truthy(w) THEN Threw(WxMissingError, ps)
  ELSE IF ~api.callable THEN Threw(NotAFunction, ps)
  ELSE Invoker(api, options, params, ps)

\* promisify(api)(options, ...params)
promisify(w, api, options, params, ps) ==
  IF ~Truthy(w) THEN Threw(WxMissingError, ps)
  ELSE Invoker(api, options, params, ps)

\* a setOption that never passes options on
SetOptionDropsOptions(w, fun, options, ps) ==
  IF ~Truthy(w) THEN Threw(WxMissingError, ps)
  ELSE promisify(w, Lookup(w, fun), UndefinedArg, <<>>, ps)
\* a setOption that validates this.wx on its first call only
SetOptionChecksOnce(w, fun, options, ps) ==
  IF ~Truthy(w) /\ Len(ps) = 0 THEN Threw(WxMissingError, ps)
  ELSE IF Truthy(options) THEN Invoker(Lookup(w, fun), options, <<>>, ps)
  ELSE Invoker(Lookup(w, fun), UndefinedArg, <<>>, ps)

\* setOption(fun, options)
setOption(w, fun, options, ps) ==
  IF ~Truthy(w) THEN Threw(WxMissingError, ps)
  ELSE IF Truthy(options)
       THEN promisify(w, Lookup(w, fun), options, <<>>, ps)
       ELSE promisify(w, Lookup(w, fun), UndefinedArg, <<>>, ps)

\* every method copied from login with the name left as it was
MethodCopied(w, m, options, ps) == setOption(w, "login", options, ps)

\* async login(options) { return this.setOption('login', options); } and
\* the like; getMenuButtonBoundingClientRect() passes no options on
Method(w, m, options, ps) ==
  IF m = "getMenuButtonBoundingClientRect"
  THEN setOption(w, m, UndefinedArg, ps)
  ELSE setOption(w, m, options, ps)

EmptyString == Val("string", 0)
EmptyObject == Val("object", 0)
S1 == Val("string", 1)

\* a default parameter value: x = d in the parameter list
Default(x, d) == IF x = Undefined THEN d ELSE x

\* every helper copied from get with its literal left as it was
VerbLiteralCopied(verb) == Val("'GET'", 0)

\* the literal each HTTP-verb helper puts in `method`
VerbLiteral(verb) ==
  CASE verb = "get" -> Val("'GET'", 0)
    [] verb = "post" -> Val("'POST'", 0)
    [] verb = "put" -> Val("'PUT'", 0)
    [] verb = "delete" -> Val("'DELETE'", 0)

\* Object.assign({}, { method: 'GET', url, data, header })
VerbOptions(verb, url, data, header) ==
  Obj(ObjectAssign(NoFields,
        Obj([NoFields EXCEPT !.method = VerbLiteral(verb),
                             !.url = Default(url, EmptyString),
                             !.data = Default(data, EmptyObject),
                             !.header = header])))

\* async get(url = '', data = {}, header) and post, put, delete
Verb(w, verb, url, data, header, ps) ==
  setOption(w, "request", VerbOptions(verb, url, data, header), ps)

\* a method declared without `async`: its caller gets what the body gives
NotAsync(o) == [threw |-> o.threw, outer |-> NoPromise]

\* what the caller of an `async` method gets: never a throw, a promise that
\* is rejected with what the body threw or else follows the returned promise
AsyncReturn(o) ==
  [threw |-> NoError,
   outer |-> IF o.threw # NoError THEN Rejected(o.threw) ELSE Pending]

\* what the caller of setOption or of promisify's invoker gets
PlainReturn(o) == [threw |-> o.threw, outer |-> NoPromise]

\* ---------------------------------------------------------------- the earlier adapter
\* src/unnamed/part_001: the same class before the bare-callback branch and
\* the test of options in setOption were added

\* the earlier arguments with the extra ones left out
OldHostArgsNoParams(options, params, id) == <<MergedOptions(options, id)>>
\* api(Object.assign({}, options, { success: resolve, fail: reject }), ...params)
OldHostArgs(options, params, id) == <<MergedOptions(options, id)>> \o params

\* the executor of the earlier invoker: one branch, whatever options is
OldExecutor(api, options, params, id, ps) ==
  LET args == OldHostArgs(options, params, id)
  IN IF ~api.callable
     THEN [ps |-> [ps EXCEPT ![id] = Reject(@, NotAFunction)], called |-> 0,
           hostOp |-> "", hostArgs |-> <<>>, cb |-> NoCb, hostThrew |-> NoError,
           after |-> OptionsAfter(options, id)]
     ELSE LET r == HostSteps(api.sync, args[1], ps, NoCb)
              threw == IF r.threw # NoError THEN r.threw
                       ELSE api.throws
              ps2 == IF threw # NoError
                     THEN [r.ps EXCEPT ![id] = Reject(@, threw)]
                     ELSE r.ps
          IN [ps |-> ps2, called |-> 1, hostOp |-> api.name, hostArgs |-> args,
              cb |-> r.cb, hostThrew |-> threw, after |-> OptionsAfter(options, id)]

\* (options, ...params) => new Promise(executor)
OldInvoker(api, options, params, ps) ==
  LET id == Len(ps) + 1
      e == OldExecutor(api, options, params, id, Append(ps, Pending))
  IN [threw |-> NoError, ps |-> e.ps, called |-> e.called, hostOp |-> e.hostOp,
      hostArgs |-> e.hostArgs, cb |-> e.cb, hostThrew |-> e.hostThrew,
      after |-> e.after]

\* promisify(api)(options, ...params)
OldPromisify(w, api, options, params, ps) ==
  IF ~Truthy(w) THEN Threw(WxMissingError, ps)
  ELSE OldInvoker(api, options, params, ps)

\* setOption(fun, options): options is passed on whatever it is
OldSetOption(w, fun, options, ps) ==
  IF ~Truthy(w) THEN Threw(WxMissingError, ps)
  ELSE OldPromisify(w, Lookup(w, fun), options, <<>>, ps)

\* async login(options) { return this.setOption('login', options); }
OldMethod(w, m, options, ps) == OldSetOption(w, m, options, ps)

\* ---------------------------------------------------------------- inputs
F1 == Prim("function", 1)
F2 == Val("function", 2)
F3 == Val("function", 3)
Zero == Prim("number", 0)
EmptyStringArg == Prim("string", 0)
False == Prim("boolean", 0)
EmptyOptions == Obj(NoFields)
UrlOptions == Obj([NoFields EXCEPT !.url = S1, !.success = F2, !.fail = F3])
TimeoutOptions == Obj([NoFields EXCEPT !.timeout = D1])

OptionInputs == {UndefinedArg, Zero, F1, EmptyOptions, UrlOptions, TimeoutOptions}

P1 == Prim("data", 1)
P2 == Prim("data", 2)
ParamInputs == {<<>>, <<P1>>, <<P2, P1>>}

MethodInputs ==
  ({"login"} \X OptionInputs)
    \cup ({"nextTick"} \X {F1, UndefinedArg})
    \cup {<<"onSocketOpen", F1>>}
    \cup ({"getMenuButtonBoundingClientRect"} \X {UndefinedArg, UrlOptions})

SetOptionInputs ==
  ({"login"} \X (OptionInputs \cup {EmptyStringArg, False}))
    \cup ({"doesNotExist"} \X {EmptyOptions, F1})
    \cup ({"toString", "hasOwnProperty"} \X {EmptyOptions})

PromisifyInputs ==
  ({"login"} \X {UndefinedArg, UrlOptions, F1} \X ParamInputs)
    \cup {<<"doesNotExist", EmptyOptions, <<>>>>, <<"constructor", F1, <<>>>>}

Verbs == {"get", "post", "put", "delete"}
VerbInputs == {<<Undefined, Undefined, Undefined>>, <<S1, Undefined, Undefined>>,
               <<S1, D1, D2>>}

WxInputs == {WxNull, WxUndefined} \cup {WxObject(p) : p \in Programs}

\* ---------------------------------------------------------------- the state machine
\* new WeChat(wx): the held reference; nothing has been invoked
Init ==
  /\ wx \in WxInputs
  /\ inv = <<>>
  /\ inner = <<>>
  /\ outer = <<>>
  /\ cbs = <<>>

\* the caller's options object after the call: it is the object the invoker
\* got when the method passed it on (setOption does so for a truthy
\* options; getMenuButtonBoundingClientRect and the HTTP-verb helpers pass
\* none of the caller's objects on)
CallerOptionsAfter(entry, options, o) ==
  IF entry \in Verbs \/ entry = "getMenuButtonBoundingClientRect"
       \/ ~Truthy(options) \/ o.threw # NoError
  THEN options ELSE o.after

\* an invocation that also stores the promisified function on wx
CommitCachesOnWx(entry, fun, options, params, o, ret) ==
  /\ inv' = Append(inv, [entry |-> entry, fun |-> fun, options |-> options,
                         optionsAfter |-> CallerOptionsAfter(entry, options, o),
                         params |-> params, threw |-> ret.threw,
                         called |-> o.called, hostOp |-> o.hostOp,
                         hostArgs |-> o.hostArgs, hostThrew |-> o.hostThrew])
  /\ inner' = o.ps
  /\ outer' = Append(outer, ret.outer)
  /\ cbs' = Append(cbs, o.cb)
  /\ wx' = IF Truthy(wx) /\ fun \in OpNames
           THEN [wx EXCEPT !.ops[fun].name = "promisified"] ELSE wx

\* one invocation, from the call to the value the caller gets back
Commit(entry, fun, options, params, o, ret) ==
  /\ inv' = Append(inv, [entry |-> entry, fun |-> fun, options |-> options,
                         optionsAfter |-> CallerOptionsAfter(entry, options, o),
                         params |-> params, threw |-> ret.threw,
                         called |-> o.called, hostOp |-> o.hostOp,
                         hostArgs |-> o.hostArgs, hostThrew |-> o.hostThrew])
  /\ inner' = o.ps
  /\ outer' = Append(outer, ret.outer)
  /\ cbs' = Append(cbs, o.cb)
  /\ UNCHANGED wx

\* adapter.<m>(options) for a named pass-through method
CallMethod(m, options, max) ==
  /\ Len(inv) < max
  /\ LET o == Method(wx, m, options, inner)
     IN Commit(m, m, options, <<>>, o, AsyncReturn(o))

\* adapter.get/post/put/delete(url, data, header)
CallVerb(verb, url, data, header, max) ==
  /\ Len(inv) < max
  /\ LET o == Verb(wx, verb, url, data, header, inner)
     IN Commit(verb, "request", UndefinedArg,
               <<Prim(url.tag, url.n), Prim(data.tag, data.n),
                 Prim(header.tag, header.n)>>, o, AsyncReturn(o))

\* adapter.setOption(fun, options)
CallSetOption(fun, options, max) ==
  /\ Len(inv) < max
  /\ LET o == setOption(wx, fun, options, inner)
     IN Commit("setOption", fun, options, <<>>, o, PlainReturn(o))

\* adapter.promisify(wx[fun])(options, ...params)
CallPromisify(fun, options, params, max) ==
  /\ Len(inv) < max
  /\ LET o == promisify(wx, Lookup(wx, fun), options, params, inner)
     IN Commit("promisify", fun, options, params, o, PlainReturn(o))

\* the same three calls on the earlier adapter
CallOldMethod(m, options, max) ==
  /\ Len(inv) < max
  /\ LET o == OldMethod(wx, m, options, inner)
     IN Commit("old:method", m, options, <<>>, o, AsyncReturn(o))

CallOldSetOption(fun, options, max) ==
  /\ Len(inv) < max
  /\ LET o == OldSetOption(wx, fun, options, inner)
     IN Commit("old:setOption", fun, options, <<>>, o, PlainReturn(o))

CallOldPromisify(fun, options, params, max) ==
  /\ Len(inv) < max
  /\ LET o == OldPromisify(wx, Lookup(wx, fun), options, params, inner)
     IN Commit("old:promisify", fun, options, params, o, PlainReturn(o))

\* the host operation of invocation i calls, after it has returned, a
\* function it was given: options.success, options.fail or options itself
HostCalls(i, slot, v) ==
  /\ i \in 1..Len(inv)
  /\ inv[i].called = 1
  /\ inv[i].hostThrew = NoError
  /\ Lookup(wx, inv[i].hostOp).later
  /\ LET fn == SlotFn(inv[i].hostArgs[1], slot)
     IN /\ IsCallable(fn)
        /\ inner' = ApplyFn(inner, fn, v)
  /\ cbs' = [cbs EXCEPT ![i] = NoteCb(@, slot, v)]
  /\ UNCHANGED <<wx, inv, outer>>

\* the promise an async method returned follows the settled promise its
\* body returned
Adopt(i) ==
  /\ i \in 1..Len(inv)
  /\ outer[i].state = "pending"
  /\ inner[i].state \in {"resolved", "rejected"}
  /\ outer' = [outer EXCEPT ![i] = inner[i]]
  /\ UNCHANGED <<wx, inv, inner, cbs>>

Slots == {"success", "fail", "callback"}

Next ==
  \/ \E x \in MethodInputs : CallMethod(x[1], x[2], MaxInv)
  \/ \E verb \in Verbs, x \in VerbInputs : CallVerb(verb, x[1], x[2], x[3], MaxInv)
  \/ \E x \in SetOptionInputs : CallSetOption(x[1], x[2], MaxInv)
  \/ \E x \in PromisifyInputs : CallPromisify(x[1], x[2], x[3], MaxInv)
  \/ \E i \in 1..MaxInv, slot \in Slots, v \in DataVals : HostCalls(i, slot, v)
  \/ \E i \in 1..MaxInv : Adopt(i)

Spec == Init /\ [][Next]_vars

\* several invocations in flight at once
ConcInputs == {<<"login", UndefinedArg>>, <<"login", UrlOptions>>}

NextConc ==
  \/ \E x \in ConcInputs : CallMethod(x[1], x[2], MaxConc)
  \/ \E x \in ConcInputs : CallSetOption(x[1], x[2], MaxConc)
  \/ \E i \in 1..MaxConc, slot \in Slots, v \in DataVals : HostCalls(i, slot, v)
  \/ \E i \in 1..MaxConc : Adopt(i)

InitConc ==
  /\ wx \in {WxObject(PAsync), WxObject(PSuccess)}
  /\ inv = <<>>
  /\ inner = <<>>
  /\ outer = <<>>
  /\ cbs = <<>>

SpecConc == InitConc /\ [][NextConc]_vars

\* a sequence of operations on one adapter, with or without a capability
\* object, the promises of the async methods following in between
SeqMethodInputs ==
  {<<"login", UrlOptions>>, <<"getMenuButtonBoundingClientRect", UrlOptions>>}
SeqSetOptionInputs == {<<"login", UndefinedArg>>, <<"login", UrlOptions>>}

NextSeq ==
  \/ \E x \in SeqMethodInputs : CallMethod(x[1], x[2], MaxConc)
  \/ CallVerb("get", S1, Undefined, Undefined, MaxConc)
  \/ \E x \in SeqSetOptionInputs : CallSetOption(x[1], x[2], MaxConc)
  \/ CallPromisify("login", UrlOptions, <<P1>>, MaxConc)
  \/ \E i \in 1..MaxConc : Adopt(i)

InitSeq ==
  /\ wx \in {WxNull, WxUndefined, WxObject(PSuccess), WxObject(PFail)}
  /\ inv = <<>>
  /\ inner = <<>>
  /\ outer = <<>>
  /\ cbs = <<>>

SpecSeq == InitSeq /\ [][NextSeq]_vars

\* the earlier adapter on the inputs of the present one
NextOld ==
  \/ \E options \in OptionInputs : CallOldMethod("login", options, MaxInv)
  \/ \E x \in SetOptionInputs : CallOldSetOption(x[1], x[2], MaxInv)
  \/ \E x \in PromisifyInputs : CallOldPromisify(x[1], x[2], x[3], MaxInv)
  \/ \E i \in 1..MaxInv, slot \in Slots, v \in DataVals : HostCalls(i, slot, v)
  \/ \E i \in 1..MaxInv : Adopt(i)

SpecOld == Init /\ [][NextOld]_vars

\* ---------------------------------------------------------------- claims
Calls == 1..Len(inv)
Settled(p) == p.state \in {"resolved", "rejected"}
IsAsyncEntry(e) == e \notin {"setOption", "promisify"}

\* the returned promise is settled as p, or is the promise of an async
\* method that has not yet followed p
Follows(i, p) ==
  /\ inv[i].threw = NoError
  /\ inner[i] = p
  /\ IF IsAsyncEntry(inv[i].entry) THEN outer[i] \in {Pending, p}
     ELSE outer[i] = NoPromise

\* C1: when the host operation calls the injected success callback with V,
\* the promise of the invocation (named method, HTTP-verb helper, setOption
\* or promisify invoker) is resolved with exactly V
C1_SuccessResolvesWithValue ==
  \A i \in Calls :
    cbs[i].first[1] = "success" => Follows(i, Resolved(cbs[i].first[2]))

C1_Witness ==
  \E i \in Calls :
    /\ inv[i].entry = "login"
    /\ cbs[i].first = <<"success", D1>>
    /\ outer[i] = Resolved(D1)

\* C2: when the host operation calls the injected fail callback with E, the
\* promise is rejected with exactly E, also through the HTTP-verb helpers
C2_FailRejectsWithValue ==
  \A i \in Calls :
    cbs[i].first[1] = "fail" => Follows(i, Rejected(cbs[i].first[2]))

C2_Witness ==
  \E i \in Calls :
    /\ inv[i].entry = "get"
    /\ inv[i].params[1] = Prim("string", 1)
    /\ cbs[i].first = <<"fail", D1>>
    /\ outer[i] = Rejected(D1)

\* C3 as stated: with no capability object every public method throws the
\* error to its caller and no promise is made
C3_AllMethodsThrowSynchronously ==
  \A i \in Calls :
    ~Truthy(wx) =>
      /\ inv[i].threw = WxMissingError
      /\ inner[i] = NoPromise
      /\ outer[i] = NoPromise

\* C3 amended: with no capability object setOption and promisify throw the
\* error to their caller and make no promise; the async methods (the named
\* ones and get/post/put/delete) throw nothing and return a promise already
\* rejected with that error; the host is never called
C3_MissingWxThrowsOrRejects ==
  \A i \in Calls :
    ~Truthy(wx) =>
      /\ inv[i].called = 0
      /\ inner[i] = NoPromise
      /\ IF IsAsyncEntry(inv[i].entry)
         THEN inv[i].threw = NoError /\ outer[i] = Rejected(WxMissingError)
         ELSE inv[i].threw = WxMissingError /\ outer[i] = NoPromise

C3_Witness ==
  \E i \in Calls :
    /\ wx = WxNull
    /\ inv[i].entry = "login"
    /\ inv[i].threw = NoError
    /\ outer[i] = Rejected(WxMissingError)

\* C4 as stated: setOption with a name that is no callable field of a
\* present capability object throws out of the call, and returns no promise
C4_UnknownOperationThrows ==
  \A i \in Calls :
    (inv[i].entry = "setOption" /\ Truthy(wx) /\ ~Lookup(wx, inv[i].fun).callable)
      => inv[i].threw # NoError /\ inner[i] = NoPromise

\* C4 amended: setOption with such a name throws nothing: it returns a
\* promise rejected with the TypeError of the call of a non-function
C4_UnknownOperationRejects ==
  \A i \in Calls :
    (inv[i].entry = "setOption" /\ Truthy(wx) /\ ~Lookup(wx, inv[i].fun).callable)
      => /\ inv[i].threw = NoError
         /\ inv[i].called = 0
         /\ inner[i] = Rejected(NotAFunction)

C4_Witness ==
  \E i \in Calls :
    /\ inv[i].entry = "setOption"
    /\ inv[i].fun = "doesNotExist"
    /\ inv[i].options = EmptyOptions
    /\ wx.tag = "object"
    /\ inner[i] = Rejected(NotAFunction)

\* C5: once the host has called an injected callback, no later callback call
\* changes the promise, and a settled promise never changes
C5_SettlesAtMostOnce ==
  [][\A i \in Calls :
       /\ cbs[i].first[1] \in {"success", "fail"} => inner'[i] = inner[i]
       /\ Settled(inner[i]) => inner'[i] = inner[i]
       /\ Settled(outer[i]) => outer'[i] = outer[i]]_vars

C5_Witness ==
  \E i \in Calls :
    /\ cbs[i].first = <<"success", D1>>
    /\ cbs[i].again
    /\ inner[i] = Resolved(D1)

\* C6: with a function F as options the host operation is called once with
\* F alone, nothing is injected, and when it returns the promise is resolved
\* with what it returned
C6_BareCallback ==
  \A i \in Calls :
    (IsFunction(inv[i].options) /\ Truthy(wx) /\ Lookup(wx, inv[i].fun).callable)
      => /\ inv[i].called = 1
         /\ inv[i].hostOp = inv[i].fun
         /\ inv[i].hostArgs = <<inv[i].options>>
         /\ cbs[i].first[1] \notin {"success", "fail"}
         /\ inv[i].hostThrew = NoError
              => Follows(i, Resolved(Returned(Lookup(wx, inv[i].fun),
                                               inv[i].hostArgs)))

C6_Witness ==
  \E i \in Calls :
    /\ inv[i].entry = "nextTick"
    /\ inv[i].hostArgs = <<F1>>
    /\ outer[i] = Resolved(D2)

\* C7: with options that is no function the host gets a new object with the
\* fields of the caller's options, except that success and fail are the
\* promise's resolve and reject; with no options it has only these two
C7_MergedOptions ==
  \A i \in Calls :
    (inv[i].entry \notin Verbs \cup {"getMenuButtonBoundingClientRect"}
       /\ ~IsFunction(inv[i].options) /\ inv[i].called = 1)
      => LET a == inv[i].hostArgs[1]
         IN /\ a.tag = "object"
            /\ a.fields["success"] = ResolveFn(i)
            /\ a.fields["fail"] = RejectFn(i)
            /\ \A f \in FieldNames \ {"success", "fail"} :
                 a.fields[f] = inv[i].options.fields[f]

C7_Witness ==
  \E i \in Calls :
    /\ inv[i].options = UrlOptions
    /\ inv[i].options.fields["success"] = F2
    /\ inv[i].called = 1
    /\ inv[i].hostArgs[1].fields["url"] = S1
    /\ inv[i].hostArgs[1].fields["success"] = ResolveFn(i)

\* C8: the extra arguments given to an invoker after options that is no
\* function reach the host unchanged and in order, right after the merged
\* options
C8_ExtraArguments ==
  \A i \in Calls :
    (inv[i].entry = "promisify" /\ ~IsFunction(inv[i].options) /\ inv[i].called = 1)
      => /\ Len(inv[i].hostArgs) = 1 + Len(inv[i].params)
         /\ inv[i].hostArgs[1].tag = "object"
         /\ \A k \in 1..Len(inv[i].params) : inv[i].hostArgs[k + 1] = inv[i].params[k]

C8_Witness ==
  \E i \in Calls :
    /\ inv[i].params = <<P2, P1>>
    /\ inv[i].hostArgs = <<MergedOptions(UrlOptions, i), P2, P1>>

\* the literal of each helper, as the claim states it
ExpectedMethod ==
  [get |-> Val("'GET'", 0), post |-> Val("'POST'", 0), put |-> Val("'PUT'", 0),
   delete |-> Val("'DELETE'", 0)]

\* C9: get/post/put/delete(url, data, header) call the host's request, and
\* nothing else, once, with method the verb's literal, url, data and header
\* the arguments ('' for an omitted url, {} for an omitted data) and the
\* injected success and fail
C9_HttpVerbs ==
  \A i \in Calls :
    (inv[i].entry \in Verbs /\ Truthy(wx) /\ Lookup(wx, "request").callable)
      => /\ inv[i].called = 1
         /\ inv[i].hostOp = "request"
         /\ Len(inv[i].hostArgs) = 1
         /\ LET a == inv[i].hostArgs[1]
                url == inv[i].params[1]
                data == inv[i].params[2]
                header == inv[i].params[3]
            IN /\ a.tag = "object"
               /\ a.fields["method"] = ExpectedMethod[inv[i].entry]
               /\ a.fields["url"] =
                    IF url.tag = "undefined" THEN Val("string", 0) ELSE Val(url.tag, url.n)
               /\ a.fields["data"] =
                    IF data.tag = "undefined" THEN Val("object", 0) ELSE Val(data.tag, data.n)
               /\ a.fields["header"] = Val(header.tag, header.n)
               /\ a.fields["timeout"] = Absent
               /\ a.fields["success"] = ResolveFn(i)
               /\ a.fields["fail"] = RejectFn(i)

C9_Witness ==
  \E i \in Calls :
    /\ inv[i].entry = "delete"
    /\ inv[i].params[1].tag = "undefined"
    /\ inv[i].hostOp = "request"
    /\ inv[i].hostArgs[1].fields["method"] = Val("'DELETE'", 0)
    /\ inv[i].hostArgs[1].fields["url"] = EmptyString
    /\ inv[i].hostArgs[1].fields["data"] = EmptyObject

\* C10: with several invocations in flight each promise is settled by its
\* own callbacks alone: it is pending until the host calls a callback of
\* that invocation and then holds the value of that first call, whatever
\* the host has called for the other invocations
C10_IndependentInvocations ==
  \A i \in Calls :
    /\ inv[i].hostArgs[1].fields["success"] = ResolveFn(i)
    /\ inv[i].hostArgs[1].fields["fail"] = RejectFn(i)
    /\ inner[i] =
         CASE cbs[i].first[1] = "success" -> Resolved(cbs[i].first[2])
           [] cbs[i].first[1] = "fail" -> Rejected(cbs[i].first[2])
           [] OTHER -> Pending
    /\ Settled(outer[i]) => outer[i] = inner[i]

C10_Witness ==
  /\ Len(inv) >= 2
  /\ wx = WxObject(PAsync)
  /\ cbs[1].first = <<"fail", D2>>
  /\ cbs[2].first = <<"success", D1>>
  /\ inner[1] = Rejected(D2)
  /\ inner[2] = Resolved(D1)

\* the promises made before invocation i, as they were when they were made
Before(i) == [j \in 1..(i - 1) |-> Pending]

\* invocation i called the host as the call with outcome o did
SameHostCall(i, o) ==
  /\ inv[i].called = o.called
  /\ inv[i].hostOp = o.hostOp
  /\ inv[i].hostArgs = o.hostArgs
  /\ inv[i].hostThrew = o.hostThrew

\* the bluebird promise of invocation i is the one of outcome o, as long as
\* the host has called nothing more than it did during the call
SamePromise(i, o) == cbs[i] = o.cb => inner[i] = o.ps[i]

\* the promise of the async method of invocation i gives the outcome o of
\* its body: rejected with what the body threw, or following its promise
AsyncOutcome(i, o) ==
  /\ inv[i].threw = NoError
  /\ IF o.threw # NoError
     THEN outer[i] = Rejected(o.threw) /\ inner[i] = NoPromise
     ELSE outer[i] \in {Pending, inner[i]} /\ SamePromise(i, o)

NamedMethods == OpNames

\* C11 as stated: every named method m, getMenuButtonBoundingClientRect
\* included, calls the host as setOption('m', options) does with the
\* caller's options, and gives its outcome
C11_EveryMethodPassesOptions ==
  \A i \in Calls :
    inv[i].entry \in NamedMethods =>
      LET o == setOption(wx, inv[i].entry, inv[i].options, Before(i))
      IN SameHostCall(i, o) /\ AsyncOutcome(i, o)

\* C11 amended: every named method m calls the host operation m, and only
\* it, as setOption('m', options) does and gives its outcome, except that
\* getMenuButtonBoundingClientRect takes no parameter and behaves as
\* setOption('getMenuButtonBoundingClientRect') with no options whatever
\* the caller passes
C11_MethodIsSetOption ==
  \A i \in Calls :
    inv[i].entry \in NamedMethods =>
      LET opts == IF inv[i].entry = "getMenuButtonBoundingClientRect"
                  THEN UndefinedArg ELSE inv[i].options
          o == setOption(wx, inv[i].entry, opts, Before(i))
      IN /\ SameHostCall(i, o)
         /\ AsyncOutcome(i, o)
         /\ inv[i].called = 1 => inv[i].hostOp = inv[i].entry

C11_Witness ==
  \E i \in Calls :
    /\ inv[i].entry = "getMenuButtonBoundingClientRect"
    /\ inv[i].options = UrlOptions
    /\ inv[i].called = 1
    /\ inv[i].hostOp = "getMenuButtonBoundingClientRect"
    /\ inv[i].hostArgs[1].fields["url"] = Absent

\* C12: setOption(name, options) calls the host and settles its promise as
\* promisify(wx[name])(options) does, for absent options and for the falsy
\* ones (0, '', false) as well
C12_SetOptionIsPromisify ==
  \A i \in Calls :
    (inv[i].entry = "setOption" /\ Truthy(wx)) =>
      LET o == promisify(wx, Lookup(wx, inv[i].fun), inv[i].options, <<>>, Before(i))
      IN /\ SameHostCall(i, o)
         /\ inv[i].threw = o.threw
         /\ outer[i] = NoPromise
         /\ SamePromise(i, o)

C12_Witness ==
  \E i \in Calls :
    /\ inv[i].entry = "setOption"
    /\ inv[i].options = False
    /\ inv[i].called = 1
    /\ inv[i].hostArgs = <<CallbackPair(i)>>
    /\ inner[i] = Resolved(D1)

\* the 'capability object not present' error reached the caller of
\* invocation i, thrown or as the rejection of an async method's promise
MissingWxOutcome(i) ==
  \/ inv[i].threw = WxMissingError
  \/ outer[i] = Rejected(WxMissingError)

\* C13: the adapter is constructed with any capability object, null and
\* undefined included; the error arises at an invocation, at every one of
\* them while the reference is absent and at none while it is present
C13_ErrorAtEveryInvocation ==
  /\ inv = <<>> => (inner = <<>> /\ outer = <<>>)
  /\ \A i \in Calls :
       /\ MissingWxOutcome(i) <=> ~Truthy(wx)
       /\ ~Truthy(wx) => inv[i].called = 0

C13_Witness ==
  /\ Len(inv) >= 2
  /\ wx = WxNull
  /\ inv[1].entry = "login"
  /\ outer[1] = Rejected(WxMissingError)
  /\ inv[2].entry = "setOption"
  /\ inv[2].threw = WxMissingError

\* C14 as stated: the host operation is called exactly once for every
\* invocation
C14_CalledOnceForEveryInvocation ==
  \A i \in Calls : inv[i].called = 1

\* C14 amended: the host operation is called exactly once for every
\* invocation on a present capability object whose operation is callable,
\* and not at all for the others; it is never called again, whatever
\* callback has fired and however the promise has settled
C14_CalledOnceNoRetry ==
  \A i \in Calls :
    inv[i].called =
      IF Truthy(wx) /\ Lookup(wx, inv[i].fun).callable THEN 1 ELSE 0

C14_Witness ==
  \E i \in Calls :
    /\ cbs[i].first[1] = "fail"
    /\ cbs[i].again
    /\ inner[i].state = "rejected"
    /\ inv[i].called = 1

\* the host got a merged options object (not the caller's function)
Structured(i) == inv[i].called = 1 /\ inv[i].hostArgs[1].tag = "object"

\* C15 as stated: for any options a promise whose host operation returned
\* is settled through a success or fail call alone
C15_SettledByCallbacksOnly ==
  \A i \in Calls :
    (inv[i].called = 1 /\ inv[i].hostThrew = NoError /\ Settled(inner[i]))
      => cbs[i].first[1] \in {"success", "fail"}

\* C15 amended: for options that is no function, a promise whose host
\* operation returned is settled through a success or fail call alone, with
\* the value of that call; with a function as options it is resolved with
\* what the host operation returned
C15_ReturnValueUnusedWhenStructured ==
  \A i \in Calls :
    (inv[i].called = 1 /\ inv[i].hostThrew = NoError /\ Settled(inner[i]))
      => IF Structured(i)
         THEN /\ cbs[i].first[1] \in {"success", "fail"}
              /\ inner[i].value = cbs[i].first[2]
         ELSE inner[i] = Resolved(Returned(Lookup(wx, inv[i].hostOp),
                                           inv[i].hostArgs))

C15_Witness ==
  \E i \in Calls :
    /\ Structured(i)
    /\ Lookup(wx, inv[i].hostOp).ret = D2
    /\ cbs[i].first = <<"success", D1>>
    /\ inner[i] = Resolved(D1)

\* C16: with options that is no function and a host operation that
\* returned, the promise is pending as long as no injected callback has
\* been called; a timeout in the options reaches the host as it is
C16_NoTimeout ==
  \A i \in Calls :
    /\ (Structured(i) /\ inv[i].hostThrew = NoError /\ cbs[i].first[1] = "none")
         => inner[i] = Pending /\ outer[i] \in {Pending, NoPromise}
    /\ (Structured(i) /\ inv[i].options.fields["timeout"] # Absent)
         => inv[i].hostArgs[1].fields["timeout"] = inv[i].options.fields["timeout"]

C16_Witness ==
  \E i \in Calls :
    /\ inv[i].entry = "login"
    /\ inv[i].options = TimeoutOptions
    /\ Structured(i)
    /\ inv[i].hostArgs[1].fields["timeout"] = D1
    /\ cbs[i].first[1] = "none"
    /\ outer[i] = Pending

\* C17: no operation changes the held capability object or a field of it
C17_WxUnchanged == [][wx' = wx]_vars

C17_Witness ==
  /\ Len(inv) >= 2
  /\ wx = WxObject(PSuccess)
  /\ inv[1].called = 1
  /\ inv[2].called = 1
  /\ inner[2] = Resolved(D1)

\* C18: the caller's options object has after the call the fields and
\* values it had before; success and fail are injected in the copy only
C18_CallerOptionsUnchanged ==
  \A i \in Calls : inv[i].optionsAfter = inv[i].options

C18_Witness ==
  \E i \in Calls :
    /\ inv[i].options = UrlOptions
    /\ Structured(i)
    /\ inv[i].hostArgs[1].fields["success"] = ResolveFn(i)
    /\ inv[i].optionsAfter.fields["success"] = F2

\* C19: what the host operation throws does not leave the invoker: the
\* promise is rejected with it, unless the host had called success or fail
\* before, whose settlement then stands
C19_HostThrowRejects ==
  \A i \in Calls :
    (inv[i].called = 1 /\ inv[i].hostThrew # NoError)
      => /\ inv[i].threw = NoError
         /\ inner[i] =
              CASE cbs[i].first[1] = "success" -> Resolved(cbs[i].first[2])
                [] cbs[i].first[1] = "fail" -> Rejected(cbs[i].first[2])
                [] OTHER -> Rejected(inv[i].hostThrew)

C19_Witness ==
  \E i \in Calls :
    /\ inv[i].hostThrew = HostError
    /\ cbs[i].first = <<"success", D2>>
    /\ inner[i] = Resolved(D2)

ListenerMethods == {"nextTick", "onSocketOpen"}

\* C20: a listener registration called with a function F is settled with
\* what the host operation returned, before and after the host calls F; the
\* payload given to F is never the promise's value
C20_ListenerSettledByReturn ==
  \A i \in Calls :
    (inv[i].entry \in ListenerMethods /\ IsFunction(inv[i].options)
       /\ inv[i].called = 1 /\ inv[i].hostThrew = NoError)
      => LET r == Resolved(Lookup(wx, inv[i].entry).ret)
         IN inner[i] = r /\ outer[i] \in {Pending, r}

C20_Witness ==
  \E i \in Calls :
    /\ inv[i].entry = "onSocketOpen"
    /\ cbs[i].first = <<"callback", D1>>
    /\ cbs[i].again
    /\ outer[i] = Resolved(D2)

\* C21: with a function as options the extra arguments of the invoker are
\* dropped, the host gets the function alone; with any other options they
\* are forwarded
C21_ExtraArgumentsDropped ==
  \A i \in Calls :
    (inv[i].entry = "promisify" /\ inv[i].called = 1)
      => IF IsFunction(inv[i].options)
         THEN inv[i].hostArgs = <<inv[i].options>>
         ELSE SubSeq(inv[i].hostArgs, 2, Len(inv[i].hostArgs)) = inv[i].params

C21_Witness ==
  \E i \in Calls :
    /\ inv[i].entry = "promisify"
    /\ inv[i].options = F1
    /\ inv[i].params = <<P2, P1>>
    /\ inv[i].called = 1
    /\ inv[i].hostThrew = NoError
    /\ inv[i].hostArgs = <<F1>>

\* what the present adapter does on the inputs of invocation i of the
\* earlier one
Present(i) ==
  CASE inv[i].entry = "old:method" ->
         Method(wx, inv[i].fun, inv[i].options, Before(i))
    [] inv[i].entry = "old:setOption" ->
         setOption(wx, inv[i].fun, inv[i].options, Before(i))
    [] inv[i].entry = "old:promisify" ->
         promisify(wx, Lookup(wx, inv[i].fun), inv[i].options, inv[i].params, Before(i))

\* C22: on options that is no function the earlier adapter calls the same
\* host operation with the same merged options and gives the same outcome
\* and the same capability-absent error as the present one; on a function
\* it gives the host a new object with success and fail and not the function
C22_OldAdapterEquivalent ==
  \A i \in Calls :
    LET o == Present(i)
    IN /\ ~IsFunction(inv[i].options) =>
            /\ SameHostCall(i, o)
            /\ SamePromise(i, o)
            /\ (inv[i].entry = "old:method" => AsyncOutcome(i, o))
            /\ (inv[i].entry # "old:method" =>
                  (inv[i].threw = o.threw /\ outer[i] = NoPromise))
       /\ (IsFunction(inv[i].options) /\ inv[i].called = 1) =>
            /\ inv[i].hostOp = o.hostOp
            /\ inv[i].hostArgs[1] = CallbackPair(i)
            /\ o.hostArgs = <<inv[i].options>>

C22_Witness ==
  \E i \in Calls :
    /\ inv[i].entry = "old:method"
    /\ inv[i].options = UrlOptions
    /\ inv[i].hostArgs = setOption(wx, "login", UrlOptions, Before(i)).hostArgs
    /\ cbs[i].first = <<"fail", D2>>
    /\ outer[i] = Rejected(D2)

====
